---- MODULE Spec2Model ----
(***************************************************************************)
(* A model of src/library.js: library.grid.limitSubgridAdds (the row-count *)
(* driven Add-button toggler) and library.form.setupConditionalFields (the *)
(* dependency-rule evaluator).                                             *)
(***************************************************************************)
EXTENDS Integers, Sequences, FiniteSets, TLC

\* ------------------------------------------------------------------ bounds
MaxGrids == 1
MaxButtons == 2
MaxRowsPerTag == 2
MaxInstalls == 2          \* calls of limitSubgridAdds on one page

\* ------------------------------------------------------- grid: host markup
\* The two literal selectors of the source and one host-specific alternative
\* for each (a page whose grids and Add controls carry other class names).
DefaultGridSelector == ".entity-grid.subgrid"
DefaultAddSelector == ".view-toolbar .create-action"
CustomGridSelector == ".my-grid"
CustomAddSelector == ".my-add"

Markups == {"std", "custom"}
RowTags == {"contact", "account"}

GridClassOf(markup) == IF markup = "std" THEN DefaultGridSelector ELSE CustomGridSelector
AddClassOf(markup) == IF markup = "std" THEN DefaultAddSelector ELSE CustomAddSelector

\* An Add control as the host inserts it: no marker class, no hidden
\* attribute, no ARIA state, in the tab order.
FreshButton ==
    [show |-> FALSE, hidden |-> FALSE, ariaHidden |-> "", ariaDisabled |-> "",
     tabIndex |-> 0, display |-> "", visibility |-> ""]

\* A grid as the host first renders it: toolbar and table arrive later.
FreshGrid ==
    [hasTable |-> FALSE, rows |-> [t \in RowTags |-> 0], buttons |-> <<>>]

VARIABLES
    pageMarkup,           \* the class names the host page uses
    grids,                \* the grids of the page, in document order
    styleBlocks,          \* number of <style id="pp-subgrid-add-toggle">
    installed,            \* limitSubgridAdds has run
    MAX_ROWS, ENTITY_NAME, GRID_SELECTOR, ADD_BUTTON_SELECTOR,
    connected,            \* obs is observing document.body
    pending,              \* a mutation record is queued for obs
    disposed,             \* dispose() has been called
    gridOp,               \* the last grid-side step taken
    others                \* the closures of further limitSubgridAdds calls

gridVars == <<pageMarkup, grids, styleBlocks, installed, MAX_ROWS, ENTITY_NAME,
              GRID_SELECTOR, ADD_BUTTON_SELECTOR, connected, pending,
              disposed, gridOp, others>>

VARIABLES
    rules,                \* the rules argument
    options,              \* options.containerDepth: <<>> or <<n>>
    els,                  \* the field element currently matching each selector
    gen,                  \* which element that is (0: none in the document)
    renders,              \* how many times the host has rendered a field anew
    disp,                 \* style.display of every container node
    formInstalled,        \* setupConditionalFields has returned
    genAtInstall,         \* gen as it was when setupConditionalFields ran
    listeners,            \* addEventListener registrations, in order
    queue,                \* listeners of the event being delivered, still to run
    trace,                \* what the last handler did, in order
    formOp,               \* the last form-side step taken
    hung,                 \* a handler recursed without end
    thrown,               \* the last handler ended by raising to its caller
    ret                   \* the outcome of the last val(el) call

formVars == <<rules, options, els, gen, renders, disp, formInstalled, genAtInstall,
              listeners, queue, trace, formOp, hung, thrown, ret>>

vars == <<gridVars, formVars>>

\* ---------------------------------------------------------- grid: helpers
\* an injection without the getElementById test
injectStyleOnce_m(n) == n + 1

\* n is the number of elements with id "pp-subgrid-add-toggle"
injectStyleOnce(n) == IF n > 0 THEN n ELSE n + 1

TotalRows(grid) == grid.rows["contact"] + grid.rows["account"]

\* countRows without the fall-back to all rows
countRows_m(grid, entityName) ==
    IF ~grid.hasTable THEN 0
    ELSE IF entityName = "" THEN TotalRows(grid)
    ELSE IF entityName \in RowTags THEN grid.rows[entityName] ELSE 0

countRows(grid, entityName) ==
    IF ~grid.hasTable THEN 0
    ELSE LET count == IF entityName # "" /\ entityName \in RowTags
                      THEN grid.rows[entityName] ELSE 0
         IN IF count = 0 THEN TotalRows(grid) ELSE count

\* showAdd leaving the hidden attribute in place
showAdd_m(btn) ==
    [btn EXCEPT !.show = TRUE, !.display = "", !.visibility = "",
                !.ariaHidden = "false", !.ariaDisabled = "false", !.tabIndex = 0]

showAdd(btn) ==
    [btn EXCEPT !.show = TRUE, !.display = "", !.visibility = "",
                !.hidden = FALSE, !.ariaHidden = "false",
                !.ariaDisabled = "false", !.tabIndex = 0]

hideAdd(btn) ==
    [btn EXCEPT !.show = FALSE, !.display = "", !.hidden = TRUE,
                !.ariaHidden = "true", !.ariaDisabled = "true",
                !.tabIndex = -1]

\* Number(opts && opts.maxRows) || 3 ; the option is <<>> when not supplied
NumberOr3(m) == IF m = <<>> THEN 3 ELSE IF m[1] = 0 THEN 3 ELSE m[1]
OrDefault(s, d) == IF s = "" THEN d ELSE s

MatchesGrid(grid, gridSelector) == GridClassOf(pageMarkup) = gridSelector
MatchesAdd(grid, addSelector) == AddClassOf(pageMarkup) = addSelector

toggleInGridWith(grid, maxRows, entityName, addSelector) ==
    LET rows == countRows(grid, entityName)
    IN IF ~MatchesAdd(grid, addSelector) THEN grid
       ELSE [grid EXCEPT !.buttons =
                [i \in DOMAIN grid.buttons |->
                    IF rows < maxRows THEN showAdd(grid.buttons[i])
                    ELSE hideAdd(grid.buttons[i])]]

toggleInGrid(grid) == toggleInGridWith(grid, MAX_ROWS, ENTITY_NAME, ADD_BUTTON_SELECTOR)

toggleAllWith(gs, maxRows, entityName, gridSelector, addSelector) ==
    [i \in DOMAIN gs |->
        IF MatchesGrid(gs[i], gridSelector)
        THEN toggleInGridWith(gs[i], maxRows, entityName, addSelector)
        ELSE gs[i]]

toggleAll(gs) == toggleAllWith(gs, MAX_ROWS, ENTITY_NAME, GRID_SELECTOR, ADD_BUTTON_SELECTOR)

\* obs.observe(document.body, {childList: true, subtree: true}): every
\* structural mutation below body queues a record while obs is connected.
\* level is "page" for a child of the page container, "deep" for anything
\* inside a grid.
\* observe without subtree: true
Observes_m(level) == level = "page"

Observes(level) == level \in {"page", "deep"}

\* The injected style rule is written with the two literal default selectors.
StyleRuleMatches(grid) == pageMarkup = "std"

\* What the browser renders for Add control btn of grid.
Rendered(grid, btn) ==
    IF styleBlocks > 0 /\ StyleRuleMatches(grid)
    THEN btn.show /\ btn.visibility # "hidden"
    ELSE ~btn.hidden /\ btn.display # "none" /\ btn.visibility # "hidden"

\* ------------------------------------------------------------ grid: inputs
Opts(m, e, g, a) == [maxRows |-> m, entityName |-> e, gridSelector |-> g, addButtonSelector |-> a]

OptsSet ==
    { Opts(<<>>, "", "", ""),
      Opts(<<2>>, "contact", "", ""),
      Opts(<<0>>, "lead", "", ""),
      Opts(<<1>>, "contact", CustomGridSelector, CustomAddSelector) }

\* The installs considered: the configured selectors are those of the page.
OptsFor(markup) ==
    {o \in OptsSet :
        /\ OrDefault(o.gridSelector, DefaultGridSelector) = GridClassOf(markup)
        /\ OrDefault(o.addButtonSelector, DefaultAddSelector) = AddClassOf(markup)}

InitGrids == {<<>>, <<FreshGrid>>}

GridInit ==
    /\ pageMarkup \in Markups
    /\ grids \in InitGrids
    /\ styleBlocks = 0
    /\ installed = FALSE
    /\ disposed = FALSE
    /\ MAX_ROWS = 0
    /\ ENTITY_NAME = ""
    /\ GRID_SELECTOR = ""
    /\ ADD_BUTTON_SELECTOR = ""
    /\ connected = FALSE
    /\ pending = FALSE
    /\ gridOp = "none"
    /\ others = <<>>
    \* the form side is not exercised with the grid controller
    /\ rules = <<>>
    /\ options = <<>>
    /\ els = <<>>
    /\ gen = <<>>
    /\ renders = 0
    /\ disp = <<>>
    /\ formInstalled = FALSE
    /\ genAtInstall = <<>>
    /\ listeners = <<>>
    /\ queue = <<>>
    /\ trace = <<>>
    /\ formOp = <<>>
    /\ hung = FALSE
    /\ thrown = FALSE
    /\ ret = <<>>

\* ----------------------------------------------------------- grid: actions
\* library.grid.limitSubgridAdds(opts)
limitSubgridAdds(opts) ==
    /\ ~installed
    /\ installed' = TRUE
    /\ MAX_ROWS' = NumberOr3(opts.maxRows)
    /\ ENTITY_NAME' = opts.entityName
    /\ GRID_SELECTOR' = OrDefault(opts.gridSelector, DefaultGridSelector)
    /\ ADD_BUTTON_SELECTOR' = OrDefault(opts.addButtonSelector, DefaultAddSelector)
    /\ styleBlocks' = injectStyleOnce(styleBlocks)
    /\ grids' = toggleAllWith(grids, MAX_ROWS', ENTITY_NAME', GRID_SELECTOR', ADD_BUTTON_SELECTOR')
    /\ connected' = TRUE
    /\ pending' = FALSE
    /\ gridOp' = "install"
    /\ UNCHANGED <<pageMarkup, disposed, others>>
    /\ UNCHANGED formVars

\* The host changed the page structure: the new grids, and the record queued.
HostMutation(newGrids, level) ==
    /\ grids' = newGrids
    /\ pending' = (pending \/ (connected /\ Observes(level)))
    /\ others' = [i \in DOMAIN others |->
                    [others[i] EXCEPT !.pending = @ \/ (others[i].connected /\ Observes(level))]]
    /\ gridOp' = "mutate"
    /\ UNCHANGED <<pageMarkup, styleBlocks, installed, MAX_ROWS, ENTITY_NAME,
                   GRID_SELECTOR, ADD_BUTTON_SELECTOR, connected, disposed>>
    /\ UNCHANGED formVars

HostAddGrid ==
    /\ Len(grids) < MaxGrids
    /\ HostMutation(Append(grids, FreshGrid), "page")

HostRemoveGrid(g) ==
    /\ g \in DOMAIN grids
    /\ HostMutation([i \in 1..(Len(grids) - 1) |-> IF i < g THEN grids[i] ELSE grids[i + 1]], "page")

HostLoadTable(g) ==
    /\ g \in DOMAIN grids
    /\ ~grids[g].hasTable
    /\ HostMutation([grids EXCEPT ![g].hasTable = TRUE], "deep")

HostAddRow(g, tag) ==
    /\ g \in DOMAIN grids
    /\ grids[g].hasTable
    /\ grids[g].rows[tag] < MaxRowsPerTag
    /\ HostMutation([grids EXCEPT ![g].rows[tag] = @ + 1], "deep")

HostRemoveRow(g, tag) ==
    /\ g \in DOMAIN grids
    /\ grids[g].rows[tag] > 0
    /\ HostMutation([grids EXCEPT ![g].rows[tag] = @ - 1], "deep")

HostAddButton(g) ==
    /\ g \in DOMAIN grids
    /\ Len(grids[g].buttons) < MaxButtons
    /\ HostMutation([grids EXCEPT ![g].buttons = Append(@, FreshButton)], "deep")

\* The host re-renders the toolbar of grid g: its controls are new elements.
HostRerenderToolbar(g) ==
    /\ g \in DOMAIN grids
    /\ \E i \in DOMAIN grids[g].buttons : grids[g].buttons[i] # FreshButton
    /\ HostMutation([grids EXCEPT ![g].buttons = [i \in DOMAIN @ |-> FreshButton]], "deep")

\* The observer callback: new MutationObserver(toggleAll)
DeliverMutations ==
    /\ pending
    /\ grids' = toggleAll(grids)
    /\ pending' = FALSE
    /\ gridOp' = "deliver"
    /\ UNCHANGED <<pageMarkup, styleBlocks, installed, MAX_ROWS, ENTITY_NAME,
                   GRID_SELECTOR, ADD_BUTTON_SELECTOR, connected, disposed, others>>
    /\ UNCHANGED formVars

\* obs.disconnect(): stops observing and empties the record queue.
\* a disposer that leaves the observer connected
Disconnect_m(c) == c

Disconnect(c) == FALSE

\* dispose() : try { obs.disconnect(); } catch {}
dispose ==
    /\ installed
    /\ connected' = Disconnect(connected)
    /\ pending' = (pending /\ connected')
    /\ disposed' = TRUE
    /\ gridOp' = "dispose"
    /\ UNCHANGED <<pageMarkup, grids, styleBlocks, installed, MAX_ROWS, ENTITY_NAME,
                   GRID_SELECTOR, ADD_BUTTON_SELECTOR, others>>
    /\ UNCHANGED formVars

GridNext ==
    \/ \E opts \in OptsFor(pageMarkup) : limitSubgridAdds(opts)
    \/ HostAddGrid
    \/ \E g \in 1..MaxGrids : HostRemoveGrid(g)
    \/ \E g \in 1..MaxGrids : HostLoadTable(g)
    \/ \E g \in 1..MaxGrids, tag \in RowTags : HostAddRow(g, tag)
    \/ \E g \in 1..MaxGrids, tag \in RowTags : HostRemoveRow(g, tag)
    \/ \E g \in 1..MaxGrids : HostAddButton(g)
    \/ \E g \in 1..MaxGrids : HostRerenderToolbar(g)
    \/ DeliverMutations
    \/ dispose

\* ------------------------------------------------- grid: several installs
\* The closure of one more limitSubgridAdds(opts) call on the page.
Closure(opts) ==
    [MAX_ROWS |-> NumberOr3(opts.maxRows),
     ENTITY_NAME |-> opts.entityName,
     GRID_SELECTOR |-> OrDefault(opts.gridSelector, DefaultGridSelector),
     ADD_BUTTON_SELECTOR |-> OrDefault(opts.addButtonSelector, DefaultAddSelector),
     connected |-> TRUE, pending |-> FALSE]

toggleAllOf(c, gs) ==
    toggleAllWith(gs, c.MAX_ROWS, c.ENTITY_NAME, c.GRID_SELECTOR, c.ADD_BUTTON_SELECTOR)

\* library.grid.limitSubgridAdds(opts), called again on the same page
limitSubgridAddsAgain(opts) ==
    /\ installed
    /\ Len(others) + 1 < MaxInstalls
    /\ styleBlocks' = injectStyleOnce(styleBlocks)
    /\ grids' = toggleAllOf(Closure(opts), grids)
    /\ others' = Append(others, Closure(opts))
    /\ gridOp' = "again"
    /\ UNCHANGED <<pageMarkup, installed, MAX_ROWS, ENTITY_NAME, GRID_SELECTOR,
                   ADD_BUTTON_SELECTOR, connected, pending, disposed>>
    /\ UNCHANGED formVars

\* The observer callback of a later install
DeliverOther(i) ==
    /\ i \in DOMAIN others
    /\ others[i].pending
    /\ grids' = toggleAllOf(others[i], grids)
    /\ others' = [others EXCEPT ![i].pending = FALSE]
    /\ gridOp' = "deliverOther"
    /\ UNCHANGED <<pageMarkup, styleBlocks, installed, MAX_ROWS, ENTITY_NAME, GRID_SELECTOR,
                   ADD_BUTTON_SELECTOR, connected, pending, disposed>>
    /\ UNCHANGED formVars

\* dispose() of a later install
DisposeOther(i) ==
    /\ i \in DOMAIN others
    /\ others[i].connected
    /\ others' = [others EXCEPT ![i].connected = Disconnect(@), ![i].pending = FALSE]
    /\ gridOp' = "disposeOther"
    /\ UNCHANGED <<pageMarkup, grids, styleBlocks, installed, MAX_ROWS, ENTITY_NAME,
                   GRID_SELECTOR, ADD_BUTTON_SELECTOR, connected, pending, disposed>>
    /\ UNCHANGED formVars

InstallsNext ==
    \/ \E opts \in OptsFor(pageMarkup) : limitSubgridAdds(opts)
    \/ \E opts \in OptsFor(pageMarkup) : limitSubgridAddsAgain(opts)
    \/ HostAddGrid
    \/ \E g \in 1..MaxGrids : HostAddButton(g)
    \/ DeliverMutations
    \/ \E i \in 1..MaxInstalls : DeliverOther(i)
    \/ dispose
    \/ \E i \in 1..MaxInstalls : DisposeOther(i)

\* =================================================================== form
\* Strings are sequences of one-character strings so that trimming, the
\* integer-literal test and parseInt are computed, not assumed.
Digits == <<"0", "1", "2", "3", "4", "5", "6", "7", "8", "9">>
IsDigit(ch) == \E i \in DOMAIN Digits : Digits[i] = ch
DigitVal(ch) == (CHOOSE i \in DOMAIN Digits : Digits[i] = ch) - 1
IsSpace(ch) == ch \in {" ", "\t", "\n"}

RECURSIVE TrimStart(_)
TrimStart(s) == IF s # <<>> /\ IsSpace(Head(s)) THEN TrimStart(Tail(s)) ELSE s
RECURSIVE TrimEnd(_)
TrimEnd(s) ==
    IF s # <<>> /\ IsSpace(s[Len(s)]) THEN TrimEnd(SubSeq(s, 1, Len(s) - 1)) ELSE s
trim(s) == TrimEnd(TrimStart(s))

\* /^-?\d+$/.test(v)
IsIntLiteral(s) ==
    LET body == IF s # <<>> /\ Head(s) = "-" THEN Tail(s) ELSE s
    IN body # <<>> /\ \A i \in DOMAIN body : IsDigit(body[i])

RECURSIVE DigitsToNat(_)
DigitsToNat(s) ==
    IF s = <<>> THEN 0
    ELSE 10 * DigitsToNat(SubSeq(s, 1, Len(s) - 1)) + DigitVal(s[Len(s)])

\* parseInt(v, 10) on a string that passed the test
parseInt(s) == IF Head(s) = "-" THEN 0 - DigitsToNat(Tail(s)) ELSE DigitsToNat(s)

\* The Value shapes of val(): boolean, integer, string, list of scalars.
BoolV(b) == [t |-> "bool", b |-> b, n |-> 0, s |-> <<>>, l |-> <<>>]
IntV(n) == [t |-> "int", b |-> FALSE, n |-> n, s |-> <<>>, l |-> <<>>]
StrV(s) == [t |-> "str", b |-> FALSE, n |-> 0, s |-> s, l |-> <<>>]
ListV(l) == [t |-> "list", b |-> FALSE, n |-> 0, s |-> <<>>, l |-> l]

coerceNumber(v) == IF IsIntLiteral(v) THEN IntV(parseInt(v)) ELSE StrV(v)

\* ------------------------------------------------------------ form: the DOM
\* Field elements are addressed by id selector. "z" never matches anything.
Sels == {"a", "b", "c", "z"}
Fields == {"a", "b", "c"}
DocOrder == <<"a", "b", "c">>
NoNode == "#none"

\* parentElement of every node of the form; html is the root.
parentElement(n) ==
    CASE n = "a" -> "a1" [] n = "a1" -> "a2" [] n = "a2" -> "a3" [] n = "a3" -> "form"
      [] n = "b" -> "b1" [] n = "b1" -> "b2" [] n = "b2" -> "bc3" [] n = "bc3" -> "form"
      [] n = "c" -> "c1" [] n = "c1" -> "c2" [] n = "c2" -> "bc3"
      [] n = "form" -> "body" [] n = "body" -> "html"
      [] OTHER -> NoNode

TextEl(v) ==
    [tagName |-> "INPUT", type |-> "text", value |-> v, checked |-> FALSE,
     name |-> <<>>, multiple |-> FALSE, options |-> <<>>]
CheckboxEl(c) ==
    [tagName |-> "INPUT", type |-> "checkbox", value |-> <<"o", "n">>, checked |-> c,
     name |-> <<>>, multiple |-> FALSE, options |-> <<>>]
\* nm is the name attribute, <<>> when the element has none
RadioEl(nm, v, c) ==
    [tagName |-> "INPUT", type |-> "radio", value |-> v, checked |-> c,
     name |-> nm, multiple |-> FALSE, options |-> <<>>]
\* options is a sequence of [value, selected]; value is that of the first
\* selected option, "" when there is none.
SelectValue(opts) ==
    IF \E i \in DOMAIN opts : opts[i].selected
    THEN opts[CHOOSE i \in DOMAIN opts :
                opts[i].selected /\ \A j \in DOMAIN opts : opts[j].selected => j >= i].value
    ELSE <<>>
SelectEl(mult, opts) ==
    [tagName |-> "SELECT", type |-> IF mult THEN "select-multiple" ELSE "select-one",
     value |-> SelectValue(opts), checked |-> FALSE,
     name |-> <<>>, multiple |-> mult, options |-> opts]

\* document.querySelector(sel) over a document doc = [present, el]:
\* the selector itself when an element matches, NoNode (null) otherwise.
querySelector(doc, sel) == IF sel \in doc.present THEN sel ELSE NoNode

\* 'input[type="radio"][name="' + name + '"]' is not a selector when the
\* name holds a double quote: querySelectorAll raises a SyntaxError.
SelectorRaises(nm) == \E i \in DOMAIN nm : nm[i] = "\""

\* [name="..."] matches elements that carry the attribute with that value.
RECURSIVE SelectSeq2(_, _, _)
SelectSeq2(seq, doc, nm) ==
    IF seq = <<>> THEN <<>>
    ELSE LET h == Head(seq)
             rest == SelectSeq2(Tail(seq), doc, nm)
         IN IF h \in doc.present /\ doc.el[h].type = "radio"
               /\ doc.el[h].name # <<>> /\ doc.el[h].name = nm
            THEN <<h>> \o rest ELSE rest

\* document.querySelectorAll('input[type="radio"][name="' + name + '"]')
RadioGroup(doc, nm) == SelectSeq2(DocOrder, doc, nm)

RECURSIVE SelectedValues(_)
SelectedValues(opts) ==
    IF opts = <<>> THEN <<>>
    ELSE IF Head(opts).selected
         THEN <<coerceNumber(Head(opts).value)>> \o SelectedValues(Tail(opts))
         ELSE SelectedValues(Tail(opts))

val(doc, node) ==
    IF node = NoNode THEN StrV(<<>>)
    ELSE LET el == doc.el[node] IN
         IF el.type = "checkbox" THEN BoolV(el.checked)
         ELSE IF el.type = "radio" THEN
            LET group == RadioGroup(doc, el.name)
                hit == {i \in DOMAIN group : doc.el[group[i]].checked}
            IN IF hit = {} THEN coerceNumber(<<>>)
               ELSE coerceNumber(doc.el[group[CHOOSE i \in hit : \A j \in hit : j >= i]].value)
         ELSE IF el.tagName = "SELECT" /\ el.multiple THEN ListV(SelectedValues(el.options))
         ELSE coerceNumber(trim(el.value))

\* val(el) raises instead of returning
valRaises(doc, node) ==
    /\ node # NoNode
    /\ doc.el[node].type = "radio"
    /\ SelectorRaises(doc.el[node].name)

RECURSIVE fieldWrapFrom(_, _)
fieldWrapFrom(c, hops) ==
    IF hops > 0 /\ parentElement(c) # NoNode THEN fieldWrapFrom(parentElement(c), hops - 1)
    ELSE c
fieldWrap(el, depth) == fieldWrapFrom(el, depth)

\* (options && options.containerDepth) || 3 ; <<>> when not supplied
DepthOr3(d) == IF d = <<>> THEN 3 ELSE IF d[1] = 0 THEN 3 ELSE d[1]

\* clearValue flipping a checkbox instead of unchecking it
Cleared_m(doc, node) ==
    LET el == doc.el[node] IN
    IF el.type = "checkbox" THEN [doc EXCEPT !.el[node].checked = ~@]
    ELSE [doc EXCEPT !.el[node].value = <<>>]

\* The assignments of clearValue, before its two dispatches.
Cleared(doc, node) ==
    LET el == doc.el[node] IN
    IF el.type = "checkbox" THEN [doc EXCEPT !.el[node].checked = FALSE]
    ELSE IF el.type = "radio" THEN
        [doc EXCEPT !.el = [s \in DOMAIN doc.el |->
            IF s \in doc.present /\ doc.el[s].type = "radio"
               /\ doc.el[s].name # <<>> /\ doc.el[s].name = el.name
            THEN [doc.el[s] EXCEPT !.checked = FALSE] ELSE doc.el[s]]]
    ELSE IF el.tagName = "SELECT" /\ el.multiple THEN
        [doc EXCEPT !.el[node].options = [i \in DOMAIN @ |-> [@[i] EXCEPT !.selected = FALSE]],
                    !.el[node].value = <<>>]
    ELSE IF el.tagName = "SELECT" THEN
        \* selectedIndex = -1, then value = "" selects the first option whose
        \* value is "" when there is one
        LET opts == el.options
            blank == {i \in DOMAIN opts : opts[i].value = <<>>}
            first == IF blank = {} THEN 0 ELSE CHOOSE i \in blank : \A j \in blank : j >= i
        IN [doc EXCEPT !.el[node].options = [i \in DOMAIN opts |-> [opts[i] EXCEPT !.selected = (i = first)]],
                       !.el[node].value = <<>>]
    ELSE [doc EXCEPT !.el[node].value = <<>>]

\* ----------------------------------------------------------- form: bounds
MaxDepth == 5            \* nesting of listener calls the engine's stack allows
MaxRenders == 2          \* times the host renders a field anew after install

\* ------------------------------------------------------------ form: rules
\* when(ctx) is a comparison of ctx.val(sel) with a constant: === or !==
Eq(sel, k) == [op |-> "eq", sel |-> sel, k |-> k]
Ne(sel, k) == [op |-> "ne", sel |-> sel, k |-> k]
\* ctx.val(sel).toFixed() === String(n): a method call on the value read
NumEq(sel, n) == [op |-> "numeq", sel |-> sel, k |-> IntV(n)]
Rule(target, deps, when, clearWhenHidden) ==
    [target |-> target, deps |-> deps, when |-> when, clearWhenHidden |-> clearWhenHidden]

when(w, doc) ==
    LET v == val(doc, querySelector(doc, w.sel))
        same == v.t # "list" /\ v = w.k
    IN IF w.op = "ne" THEN ~same ELSE same

\* rule.when(ctx) raises: ctx.val raised, or the value read is not a number
\* (only numbers have toFixed)
throws(w, doc) ==
    \/ valRaises(doc, querySelector(doc, w.sel))
    \/ w.op = "numeq" /\ val(doc, querySelector(doc, w.sel)).t # "int"

containerDepth == DepthOr3(options)

Present == {f \in Fields : gen[f] > 0}

\* an engine that keeps the elements it resolved at install: a replacement
\* element is never reached
Here_m ==
    [present |-> {f \in Present : gen[f] = genAtInstall[f]}, el |-> els, disp |-> disp,
     listeners |-> listeners, trace |-> <<>>, overflow |-> FALSE, thrown |-> FALSE]

\* The evaluation state threaded through a handler.
Here == [present |-> Present, el |-> els, disp |-> disp, listeners |-> listeners,
         trace |-> <<>>, overflow |-> FALSE, thrown |-> FALSE]

Entry(k, rule, sel, evt, show, depth) ==
    [k |-> k, rule |-> rule, sel |-> sel, evt |-> evt, show |-> show, depth |-> depth]

Log(st, e) == [st EXCEPT !.trace = Append(@, e)]

\* a registry that is keyed by the event type only
ListenersOn_m(ls, sel, g, evt) == SelectSeq(ls, LAMBDA l : l.evt = evt)

\* The registrations of el.addEventListener(evt, ...) for element (sel, g)
ListenersOn(ls, sel, g, evt) ==
    SelectSeq(ls, LAMBDA l : l.sel = sel /\ l.gen = g /\ l.evt = evt)

\* the display written with the two branches swapped
displayFor_m(show) == IF show THEN "none" ELSE ""

\* container.style.display = show ? "" : "none"
displayFor(show) == IF show THEN "" ELSE "none"

\* clearValue dispatching "change" only
ClearEvents_m == <<"change">>

\* The events clearValue dispatches on the cleared element, in order.
ClearEvents == <<"change", "input">>

\* an evaluation that goes on without a target: null has no style
NoTarget_m(st, r, depth) ==
    [Log(st, Entry("throw", r, rules[r].target, "", FALSE, depth)) EXCEPT !.thrown = TRUE]

\* if (!target) return;
NoTarget(st, r, depth) == Log(st, Entry("skip", r, rules[r].target, "", FALSE, depth))

RECURSIVE apply(_, _, _)
RECURSIVE clearValue(_, _, _)
RECURSIVE dispatchAll(_, _, _, _)
RECURSIVE dispatchEvent(_, _, _, _)
RECURSIVE runListeners(_, _, _)

\* an event dispatch that lets a listener's exception out to its caller
Reported_m(st) == st

\* The event dispatch reports an exception raised by a listener and goes on
\* to the next listener; dispatchEvent itself returns normally.
Reported(st) == [st EXCEPT !.thrown = FALSE]

\* Each listener is function () { apply(rule); }; a call nested deeper than
\* the stack allows never returns.
runListeners(st, ls, fuel) ==
    IF ls = <<>> \/ st.overflow \/ st.thrown THEN st
    ELSE IF fuel = 0 THEN [st EXCEPT !.overflow = TRUE]
    ELSE runListeners(Reported(apply(st, Head(ls).rule, fuel - 1)), Tail(ls), fuel)

dispatchEvent(st, node, evt, fuel) ==
    runListeners(Log(st, Entry("dispatch", 0, node, evt, FALSE, MaxDepth - fuel)),
                 ListenersOn(st.listeners, node, gen[node], evt), fuel)

clearValue(st, node, fuel) ==
    LET doc == Cleared([present |-> st.present, el |-> st.el], node)
        st1 == Log([st EXCEPT !.el = doc.el], Entry("clear", 0, node, "", FALSE, MaxDepth - fuel))
    IN dispatchAll(st1, node, ClearEvents, fuel)

dispatchAll(st, node, evts, fuel) ==
    IF evts = <<>> \/ st.thrown THEN st
    ELSE dispatchAll(dispatchEvent(st, node, Head(evts), fuel), node, Tail(evts), fuel)

apply(st, r, fuel) ==
    LET rule == rules[r]
        doc == [present |-> st.present, el |-> st.el]
        target == querySelector(doc, rule.target)
    IN IF target = NoNode
       THEN NoTarget(st, r, MaxDepth - fuel)
       ELSE IF throws(rule.when, doc)
       THEN [Log(st, Entry("throw", r, target, "", FALSE, MaxDepth - fuel)) EXCEPT !.thrown = TRUE]
       ELSE LET show == when(rule.when, doc)
                container == fieldWrap(target, containerDepth)
                st1 == Log([st EXCEPT !.disp[container] = displayFor(show)],
                           Entry("apply", r, target, "", show, MaxDepth - fuel))
            IN IF ~show /\ rule.clearWhenHidden THEN clearValue(st1, target, fuel) ELSE st1

\* (rule.deps || []).map(d => document.querySelector(d)).filter(Boolean)
depEls(deps, present) == SelectSeq(deps, LAMBDA d : d \in present)

\* registering the "input" listener only
Registrations_m(sel, g, r) ==
    << [sel |-> sel, gen |-> g, evt |-> "input", rule |-> r] >>

\* ["input", "change"].forEach(evt => el.addEventListener(evt, ...))
Registrations(sel, g, r) ==
    << [sel |-> sel, gen |-> g, evt |-> "input", rule |-> r],
       [sel |-> sel, gen |-> g, evt |-> "change", rule |-> r] >>

\* depEls.forEach(el => ...)
RECURSIVE Wire(_, _)
Wire(found, r) ==
    IF found = <<>> THEN <<>>
    ELSE Registrations(Head(found), gen[Head(found)], r) \o Wire(Tail(found), r)

\* an install that evaluates each rule when wiring it and once more after
setupRule_m(st, r) ==
    apply(apply([st EXCEPT !.listeners = @ \o Wire(depEls(rules[r].deps, st.present), r)],
                r, MaxDepth), r, MaxDepth)

\* One iteration of rules.forEach at install: wire, then apply(rule)
setupRule(st, r) ==
    apply([st EXCEPT !.listeners = @ \o Wire(depEls(rules[r].deps, st.present), r)], r, MaxDepth)

\* a forEach that goes on to the next rule after an exception
Propagates_m(st) == FALSE

\* An exception raised by the forEach callback ends forEach and the caller.
Propagates(st) == st.thrown

RECURSIVE setupFrom(_, _)
setupFrom(st, r) ==
    IF r > Len(rules) \/ st.overflow \/ Propagates(st) THEN st
    ELSE setupFrom(setupRule(st, r), r + 1)

\* a reapplyAll that leaves out the last rule
reapplyRule_m(st, r) == IF r = Len(rules) THEN st ELSE apply(st, r, MaxDepth)

\* One iteration of rules.forEach(apply)
reapplyRule(st, r) == apply(st, r, MaxDepth)

\* rules.forEach(apply)
RECURSIVE reapplyFrom(_, _)
reapplyFrom(st, r) ==
    IF r > Len(rules) \/ st.overflow \/ Propagates(st) THEN st
    ELSE reapplyFrom(reapplyRule(st, r), r + 1)

\* ----------------------------------------------------------- form: inputs
Nodes == {"a", "a1", "a2", "a3", "b", "b1", "b2", "c", "c1", "c2", "bc3",
          "form", "body", "html"}

rShowB == Rule("b", <<"a">>, Eq("a", IntV(1)), TRUE)
rChainC == Rule("c", <<"b">>, Ne("b", StrV(<<>>)), TRUE)
rSelfRead == Rule("b", <<"a">>, Eq("b", StrV(<<>>)), TRUE)
rSelfDep == Rule("b", <<"a", "b">>, Eq("a", IntV(1)), TRUE)
rCycleA == Rule("a", <<"b">>, Ne("b", StrV(<<>>)), TRUE)
rStatic == Rule("c", <<"z">>, Eq("a", IntV(1)), FALSE)
rNoTarget == Rule("z", <<"a">>, NumEq("a", 1), TRUE)
rPlain == Rule("c", <<"a">>, Eq("a", IntV(2)), FALSE)
rShowWhenEmpty == Rule("c", <<"b">>, Eq("b", StrV(<<>>)), FALSE)
rNeedsNum == Rule("c", <<"a">>, NumEq("a", 1), FALSE)

Setup(rs, d) == [rules |-> rs, options |-> d]

Setups ==
    { Setup(<<rShowB>>, <<>>), Setup(<<rChainC>>, <<1>>), Setup(<<rSelfRead>>, <<>>),
      Setup(<<rSelfDep>>, <<1>>), Setup(<<rStatic>>, <<0>>), Setup(<<rNoTarget>>, <<>>),
      Setup(<<rPlain>>, <<>>),
      Setup(<<rShowB, rChainC>>, <<1>>), Setup(<<rShowB, rChainC>>, <<>>),
      Setup(<<rShowB, rShowWhenEmpty>>, <<>>),
      Setup(<<rShowB, rCycleA>>, <<1>>), Setup(<<rShowB, rStatic>>, <<1>>),
      Setup(<<rShowB, rPlain>>, <<>>), Setup(<<rPlain, rShowB>>, <<1>>),
      Setup(<<rNoTarget, rShowB>>, <<>>), Setup(<<rSelfRead, rPlain>>, <<1>>),
      Setup(<<rShowB, rNeedsNum, rPlain>>, <<>>), Setup(<<rNeedsNum, rCycleA>>, <<1>>),
      Setup(<<rPlain>>, <<9>>), Setup(<<rChainC, rShowB>>, <<1>>) }

\* The states the host can put each field in.
FieldStates(f) ==
    IF f = "c" THEN {CheckboxEl(c) : c \in BOOLEAN}
    ELSE IF f = "a" THEN {TextEl(v) : v \in {<<>>, <<"1">>, <<"2">>}}
    ELSE {TextEl(v) : v \in {<<>>, <<"x">>}}

\* A field as the host renders it.
FreshField(f) ==
    IF f = "c" THEN CheckboxEl(TRUE) ELSE IF f = "a" THEN TextEl(<<"1">>) ELSE TextEl(<<"x">>)

NoOp == [k |-> "none", rule |-> 0, sel |-> "", again |-> FALSE]
Op(k, rule, sel, again) == [k |-> k, rule |-> rule, sel |-> sel, again |-> again]

NoRet == [called |-> FALSE, sel |-> "", raised |-> FALSE, v |-> StrV(<<>>)]

FormInit ==
    /\ \E su \in Setups : rules = su.rules /\ options = su.options
    /\ \E e \in FieldStates("a") : els = [f \in Fields |-> IF f = "a" THEN e ELSE FreshField(f)]
    /\ gen \in {[f \in Fields |-> 1], [f \in Fields |-> IF f = "a" THEN 0 ELSE 1]}
    /\ renders = 0
    /\ disp = [n \in Nodes |-> ""]
    /\ formInstalled = FALSE
    /\ genAtInstall = [f \in Fields |-> 0]
    /\ listeners = <<>>
    /\ queue = <<>>
    /\ trace = <<>>
    /\ formOp = NoOp
    /\ hung = FALSE
    /\ thrown = FALSE
    /\ ret = NoRet
    \* the grid side is not exercised with the form engine
    /\ pageMarkup = "std"
    /\ grids = <<>>
    /\ styleBlocks = 0
    /\ installed = FALSE
    /\ disposed = FALSE
    /\ MAX_ROWS = 0
    /\ ENTITY_NAME = ""
    /\ GRID_SELECTOR = ""
    /\ ADD_BUTTON_SELECTOR = ""
    /\ connected = FALSE
    /\ pending = FALSE
    /\ gridOp = "none"
    /\ others = <<>>

\* ---------------------------------------------------------- form: actions
\* The handler ended in state st; one that overflowed the stack never ends.
Commit(st) ==
    IF st.overflow
    THEN /\ hung' = TRUE
         /\ thrown' = FALSE
         /\ trace' = <<>>
         /\ UNCHANGED <<els, disp>>
    ELSE /\ hung' = FALSE
         /\ thrown' = st.thrown
         /\ trace' = st.trace
         /\ els' = st.el
         /\ disp' = st.disp

\* library.form.setupConditionalFields(rules, options)
setupConditionalFields ==
    /\ formOp.k = "none"
    /\ ~hung
    /\ LET st == setupFrom(Here, 1)
       IN /\ Commit(st)
          /\ listeners' = IF st.overflow THEN listeners ELSE st.listeners
          /\ formInstalled' = (~st.overflow /\ ~st.thrown)
    /\ genAtInstall' = gen
    /\ formOp' = Op("install", 0, "", FALSE)
    /\ UNCHANGED <<rules, options, gen, renders, queue>>
    /\ UNCHANGED ret
    /\ UNCHANGED gridVars

\* The browser delivers a native input or change event on field f: the
\* listeners registered on that element run one after the other.
NativeEvent(f, evt) ==
    /\ formOp.k # "none"
    /\ ~hung
    /\ queue = <<>>
    /\ f \in Present
    /\ ListenersOn(listeners, f, gen[f], evt) # <<>>
    /\ queue' = ListenersOn(listeners, f, gen[f], evt)
    /\ UNCHANGED <<rules, options, els, gen, renders, disp, formInstalled, genAtInstall,
                   listeners, trace, formOp, hung, thrown>>
    /\ UNCHANGED ret
    /\ UNCHANGED gridVars

\* function () { apply(rule); } for the next listener of the event
RunListener ==
    /\ queue # <<>>
    /\ ~hung
    /\ LET r == Head(queue).rule
       IN /\ Commit(apply(Here, r, MaxDepth))
          /\ formOp' = Op("listener", r, Head(queue).sel,
                          formOp.k = "listener" /\ formOp.rule = r)
    /\ queue' = Tail(queue)
    /\ UNCHANGED <<rules, options, gen, renders, formInstalled, genAtInstall, listeners>>
    /\ UNCHANGED ret
    /\ UNCHANGED gridVars

\* reapplyAll()
reapplyAll ==
    /\ formInstalled
    /\ ~hung
    /\ queue = <<>>
    /\ Commit(reapplyFrom(Here, 1))
    /\ formOp' = Op("reapply", 0, "", FALSE)
    /\ UNCHANGED <<rules, options, gen, renders, formInstalled, genAtInstall, listeners, queue>>
    /\ UNCHANGED ret
    /\ UNCHANGED gridVars

\* The host (or the user, before the event is delivered) changes the value
\* of field f; no event fires.
HostWrite(f, e) ==
    /\ formOp.k # "none"
    /\ ~hung
    /\ queue = <<>>
    /\ f \in Present
    /\ e # els[f]
    /\ els' = [els EXCEPT ![f] = e]
    /\ trace' = <<>>
    /\ thrown' = FALSE
    /\ formOp' = Op("write", 0, f, FALSE)
    /\ UNCHANGED <<rules, options, gen, renders, disp, formInstalled, genAtInstall,
                   listeners, queue, hung>>
    /\ UNCHANGED ret
    /\ UNCHANGED gridVars

\* The host renders field f anew: a new element matches the selector.
HostRerender(f) ==
    /\ formOp.k # "none"
    /\ ~hung
    /\ queue = <<>>
    /\ renders < MaxRenders
    /\ renders' = renders + 1
    /\ gen' = [gen EXCEPT ![f] = @ + 1]
    /\ els' = [els EXCEPT ![f] = FreshField(f)]
    /\ trace' = <<>>
    /\ thrown' = FALSE
    /\ formOp' = Op("render", 0, f, FALSE)
    /\ UNCHANGED <<rules, options, disp, formInstalled, genAtInstall,
                   listeners, queue, hung>>
    /\ UNCHANGED ret
    /\ UNCHANGED gridVars

FormNext ==
    \/ setupConditionalFields
    \/ \E f \in Fields, evt \in {"input", "change"} : NativeEvent(f, evt)
    \/ RunListener
    \/ reapplyAll
    \/ \E f \in Fields : \E e \in FieldStates(f) : HostWrite(f, e)
    \/ \E f \in Fields : HostRerender(f)

\* ---------------------------------------------------------- val on its own
\* The raw values, names and option lists the fields are drawn from.
ValStrings ==
    { <<>>, <<" ">>, <<"4", "2">>, <<"-", "7">>, <<"a", "b", "c">>, <<" ", "4", "2", " ">>,
      <<"-">>, <<"4", "x">>, <<"0", "7">>, <<"+", "5">> }
RadioNames == { <<"g">>, <<"h">>, <<"s", "\"">>, <<>> }
Option(v, sel) == [value |-> v, selected |-> sel]
ValOptions ==
    { <<>>,
      <<Option(<<"1">>, FALSE), Option(<<"x">>, FALSE)>>,
      <<Option(<<"1">>, TRUE), Option(<<"x">>, FALSE)>>,
      <<Option(<<"1">>, FALSE), Option(<<"x">>, TRUE)>>,
      <<Option(<<"-", "7">>, TRUE), Option(<<"x">>, TRUE)>> }

ValEls(f) ==
    IF f = "a"
    THEN {TextEl(v) : v \in ValStrings} \cup {CheckboxEl(c) : c \in BOOLEAN}
         \cup {RadioEl(nm, v, c) : nm \in RadioNames, v \in {<<"1">>, <<"x">>}, c \in BOOLEAN}
    ELSE IF f = "b"
    THEN {TextEl(<<"4", "2">>)}
         \cup {RadioEl(nm, v, c) : nm \in RadioNames, v \in {<<"-", "7">>, <<" ", "4">>}, c \in BOOLEAN}
    ELSE {CheckboxEl(TRUE)}
         \cup {SelectEl(m, o) : m \in BOOLEAN, o \in ValOptions}

\* A document the browser can show: one checked radio per name at most, one
\* selected option at most in a single select.
ValidDoc(e) ==
    /\ \A f, g \in Fields :
        (f # g /\ e[f].type = "radio" /\ e[g].type = "radio" /\ e[f].name # <<>>
            /\ e[f].name = e[g].name) => ~(e[f].checked /\ e[g].checked)
    /\ \A f \in Fields :
        (e[f].tagName = "SELECT" /\ ~e[f].multiple) =>
            Cardinality({i \in DOMAIN e[f].options : e[f].options[i].selected}) <= 1

ValInit ==
    /\ rules = <<>>
    /\ options = <<>>
    /\ els \in {e \in [Fields -> UNION {ValEls(f) : f \in Fields}] :
                    (\A f \in Fields : e[f] \in ValEls(f)) /\ ValidDoc(e)}
    /\ gen = [f \in Fields |-> 1]
    /\ renders = 0
    /\ disp = [n \in Nodes |-> ""]
    /\ formInstalled = FALSE
    /\ genAtInstall = [f \in Fields |-> 0]
    /\ listeners = <<>>
    /\ queue = <<>>
    /\ trace = <<>>
    /\ formOp = NoOp
    /\ hung = FALSE
    /\ thrown = FALSE
    /\ ret = NoRet
    /\ pageMarkup = "std"
    /\ grids = <<>>
    /\ styleBlocks = 0
    /\ installed = FALSE
    /\ disposed = FALSE
    /\ MAX_ROWS = 0
    /\ ENTITY_NAME = ""
    /\ GRID_SELECTOR = ""
    /\ ADD_BUTTON_SELECTOR = ""
    /\ connected = FALSE
    /\ pending = FALSE
    /\ gridOp = "none"
    /\ others = <<>>

\* val(document.querySelector(sel)), as ctx.val(sel) calls it
CallVal(sel) ==
    /\ LET doc == [present |-> Present, el |-> els]
           node == querySelector(doc, sel)
       IN ret' = [called |-> TRUE, sel |-> sel, raised |-> valRaises(doc, node),
                  v |-> IF valRaises(doc, node) THEN StrV(<<>>) ELSE val(doc, node)]
    /\ UNCHANGED <<rules, options, els, gen, renders, disp, formInstalled, genAtInstall,
                   listeners, queue, trace, formOp, hung, thrown>>
    /\ UNCHANGED gridVars

ValNext == \E sel \in Sels : CallVal(sel)

SpecVal == ValInit /\ [][ValNext]_vars

SpecGrid == GridInit /\ [][GridNext]_vars
SpecInstalls == GridInit /\ [][InstallsNext]_vars
SpecForm == FormInit /\ [][FormNext]_vars

\* ================================================================== claims
IsShownState(btn) ==
    /\ btn.show
    /\ ~btn.hidden
    /\ btn.ariaHidden = "false"
    /\ btn.ariaDisabled = "false"
    /\ btn.tabIndex = 0

IsHiddenState(btn) ==
    /\ ~btn.show
    /\ btn.hidden
    /\ btn.ariaHidden = "true"
    /\ btn.ariaDisabled = "true"
    /\ btn.tabIndex = -1

\* The grids toggleAll visits and whose Add controls it matches.
Tracked(g) ==
    /\ installed
    /\ MatchesGrid(grids[g], GRID_SELECTOR)
    /\ MatchesAdd(grids[g], ADD_BUTTON_SELECTOR)

InSync(g) ==
    \A i \in DOMAIN grids[g].buttons :
        IF countRows(grids[g], ENTITY_NAME) < MAX_ROWS
        THEN IsShownState(grids[g].buttons[i])
        ELSE IsHiddenState(grids[g].buttons[i])

\* C1: right after toggle has run over a grid (at install or on a delivered
\* notification), every matched Add control is in the shown state when the
\* grid's row count is below the maximum and in the hidden state otherwise,
\* and running toggle again on the unchanged grid changes no control.
C1_ToggleSetsEveryControl ==
    gridOp \in {"install", "deliver"} =>
        \A g \in DOMAIN grids : Tracked(g) =>
            /\ InSync(g)
            /\ toggleInGrid(grids[g]) = grids[g]

\* A delivered notification hid both controls of a grid that the
\* notification before had shown.
C1_Witness ==
    /\ gridOp = "deliver"
    /\ \E g \in DOMAIN grids :
        /\ Tracked(g)
        /\ Len(grids[g].buttons) = 2
        /\ countRows(grids[g], ENTITY_NAME) = MAX_ROWS
        /\ \A i \in DOMAIN grids[g].buttons :
            IsHiddenState(grids[g].buttons[i]) /\ grids[g].buttons[i].visibility = ""

\* C2: while the observer is connected and no mutation record is pending,
\* every tracked grid has its Add controls shown exactly when its current
\* row count is below MAX_ROWS and hidden otherwise.
C2_SyncedWhenDelivered ==
    (installed /\ connected /\ ~pending) =>
        \A g \in DOMAIN grids : Tracked(g) =>
            \A i \in DOMAIN grids[g].buttons :
                /\ IsShownState(grids[g].buttons[i]) <=> (countRows(grids[g], ENTITY_NAME) < MAX_ROWS)
                /\ IsHiddenState(grids[g].buttons[i]) <=> (countRows(grids[g], ENTITY_NAME) >= MAX_ROWS)

\* The scenario of the specification, scaled: after a delivered
\* notification the filtered count is below the maximum although the total
\* is not, and the controls are shown.
C2_Witness ==
    /\ gridOp = "deliver" /\ connected /\ ~pending
    /\ ENTITY_NAME = "contact"
    /\ \E g \in DOMAIN grids :
        /\ Tracked(g)
        /\ grids[g].buttons # <<>>
        /\ grids[g].rows["contact"] > 0 /\ grids[g].rows["contact"] < MAX_ROWS
        /\ TotalRows(grids[g]) > MAX_ROWS
        /\ \A i \in DOMAIN grids[g].buttons : IsShownState(grids[g].buttons[i])

RECURSIVE SumRows(_, _)
SumRows(rows, tags) ==
    IF tags = {} THEN 0
    ELSE LET t == CHOOSE x \in tags : TRUE IN rows[t] + SumRows(rows, tags \ {t})

RowsTagged(grid, F) == IF F \in DOMAIN grid.rows THEN grid.rows[F] ELSE 0

\* C3: with filter F configured, countRows is the number of rows tagged F
\* when that is above zero; when it is zero, or no filter is configured, it
\* is the number of all body rows of the grid's table.
C3_CountRowsFallback ==
    installed =>
        \A g \in DOMAIN grids :
            countRows(grids[g], ENTITY_NAME) =
                IF ENTITY_NAME # "" /\ RowsTagged(grids[g], ENTITY_NAME) > 0
                THEN RowsTagged(grids[g], ENTITY_NAME)
                ELSE SumRows(grids[g].rows, RowTags)

\* A filter is configured, no row carries it, and the count fell back to
\* all rows, which hid the controls.
C3_Witness ==
    /\ gridOp = "deliver"
    /\ ENTITY_NAME # ""
    /\ \E g \in DOMAIN grids :
        /\ Tracked(g)
        /\ RowsTagged(grids[g], ENTITY_NAME) = 0
        /\ countRows(grids[g], ENTITY_NAME) = TotalRows(grids[g])
        /\ TotalRows(grids[g]) >= MAX_ROWS
        /\ grids[g].buttons # <<>>
        /\ IsHiddenState(grids[g].buttons[1])

\* C7: once dispose() has been called, no step is a run of toggleAll, and a
\* further dispose() call changes nothing: the Add controls keep the state
\* they had at disposal whatever the host does to the rows.
C7_NoToggleAfterDispose ==
    [][disposed =>
        /\ gridOp' # "deliver"
        /\ ~pending'
        /\ (gridOp' = "dispose" =>
                /\ grids' = grids
                /\ connected' = connected
                /\ pending' = pending)]_vars

C7_Witness ==
    /\ disposed
    /\ gridOp = "mutate"
    /\ \E g \in DOMAIN grids :
        /\ Tracked(g)
        /\ grids[g].buttons # <<>>
        /\ IsShownState(grids[g].buttons[1])
        /\ countRows(grids[g], ENTITY_NAME) >= MAX_ROWS

\* C8: after install, an Add control of a tracked grid is rendered visible
\* only if a toggle evaluation has marked it visible.
C8_HiddenUntilMarked ==
    installed =>
        \A g \in DOMAIN grids : Tracked(g) =>
            \A i \in DOMAIN grids[g].buttons :
                Rendered(grids[g], grids[g].buttons[i]) => grids[g].buttons[i].show

\* ------------------------------------------------------------ form claims
Doc == [present |-> Present, el |-> els]

\* The empty value of a field's kind, as val() reads it.
IsEmptyField(doc, node) ==
    val(doc, node) \in {BoolV(FALSE), StrV(<<>>), ListV(<<>>)}

Indices(tr, k) == {i \in DOMAIN tr : tr[i].k = k}
ClearedFields(tr) == {tr[i].sel : i \in Indices(tr, "clear")}
Evaluated(tr) == {tr[i].rule : i \in Indices(tr, "apply")}
ReadsOf(r) == {rules[r].when.sel}
EvalCount(tr, r) == Cardinality({i \in DOMAIN tr : tr[i].k \in {"apply", "skip"} /\ tr[i].rule = r})

ContainerOf(r) == fieldWrap(rules[r].target, containerDepth)

\* The handler cleared nothing that rule r's predicate reads.
ReadsKept(tr, r) == ReadsOf(r) \cap ClearedFields(tr) = {}

\* No rule other than r evaluated in the handler toggles r's container.
ContainerOwn(tr, r) ==
    \A q \in Evaluated(tr) : q # r => ContainerOf(q) # ContainerOf(r)

AfterListener ==
    /\ formInstalled
    /\ ~hung
    /\ ~thrown
    /\ formOp.k = "listener"
    /\ rules[formOp.rule].target \in Present

ContainerMatchesPredicate(r) ==
    LET show == when(rules[r].when, Doc)
        hidden == disp[ContainerOf(r)] = "none"
    IN /\ hidden <=> ~show
       /\ (hidden /\ rules[r].clearWhenHidden) => IsEmptyField(Doc, rules[r].target)

\* C4 as stated: after R's listener has run, R's container is shown exactly
\* when R's predicate holds on the current values, and a hidden clear-on-hide
\* target is empty.
C4_Original == AfterListener => ContainerMatchesPredicate(formOp.rule)

\* C4 amended: the same, for an evaluation in which R's predicate did not
\* raise, that cleared no field R's predicate reads and in which no other
\* re-evaluated rule toggles R's container.
C4_ShownIffPredicate ==
    (AfterListener /\ ReadsKept(trace, formOp.rule) /\ ContainerOwn(trace, formOp.rule))
        => ContainerMatchesPredicate(formOp.rule)

\* The scenario of the specification: #a is 2, rule 1 hid #b and cleared it.
C4_Witness ==
    /\ AfterListener
    /\ rules[formOp.rule] = rShowB
    /\ els["a"].value = <<"2">>
    /\ disp[ContainerOf(formOp.rule)] = "none"
    /\ ClearedFields(trace) = {"b"}
    /\ els["b"].value = <<>>

Outcome(st) ==
    [el |-> IF st.overflow THEN els ELSE st.el,
     disp |-> IF st.overflow THEN disp ELSE st.disp,
     hung |-> st.overflow]

ReapplyOutcome == Outcome(reapplyFrom(Here, 1))
ChangeOutcome(f) ==
    Outcome(runListeners(Here, ListenersOn(listeners, f, gen[f], "change"), MaxDepth + 1))

Occurrences(seq, x) == Cardinality({i \in DOMAIN seq : seq[i] = x})
DepFields == {f \in Fields : \E r \in DOMAIN rules : Occurrences(rules[r].deps, f) > 0}

AfterSilentWrite ==
    /\ formInstalled
    /\ ~hung
    /\ queue = <<>>
    /\ formOp.k = "write"
    /\ formOp.sel \in DepFields

\* Every rule resolved field f as a dependency, once, at install, and f is
\* still that element.
EveryRuleListens(f) ==
    /\ gen[f] > 0
    /\ genAtInstall[f] = gen[f]
    /\ \A r \in DOMAIN rules : Occurrences(rules[r].deps, f) = 1

\* No predicate raises, in reapplyAll() or in the listeners of field f.
NoPredicateThrows(f) ==
    /\ Indices(reapplyFrom(Here, 1).trace, "throw") = {}
    /\ Indices(runListeners(Here, ListenersOn(listeners, f, gen[f], "change"),
                            MaxDepth + 1).trace, "throw") = {}

\* C5 as stated: after an event-less write to a dependency field,
\* reapplyAll() ends in the state a native change event on it would give.
C5_Original == AfterSilentWrite => ReapplyOutcome = ChangeOutcome(formOp.sel)

\* C5 amended: the same, when every rule of the rule set listens on that
\* element and no predicate raises.
C5_ReapplyMatchesChange ==
    (AfterSilentWrite /\ EveryRuleListens(formOp.sel) /\ NoPredicateThrows(formOp.sel))
        => ReapplyOutcome = ChangeOutcome(formOp.sel)

C5_Witness ==
    /\ AfterSilentWrite
    /\ EveryRuleListens(formOp.sel)
    /\ Len(rules) = 2
    /\ ~ReapplyOutcome.hung
    /\ ReapplyOutcome.disp # disp
    /\ ReapplyOutcome.el # els

\* The entries logged by the frame that logged entry i, after it: up to the
\* next evaluation or clearing of that frame or the return to an outer one.
FrameEnd(tr, i) ==
    LET stops == {j \in DOMAIN tr : j > i /\ (tr[j].depth < tr[i].depth
                        \/ (tr[j].depth = tr[i].depth /\ tr[j].k # "dispatch"))}
    IN IF stops = {} THEN Len(tr) + 1 ELSE CHOOSE j \in stops : \A m \in stops : m >= j

DispatchesOf(tr, i) ==
    SelectSeq(SubSeq(tr, i + 1, FrameEnd(tr, i) - 1),
              LAMBDA e : e.k = "dispatch" /\ e.depth = tr[i].depth)

TraceClearsOnce(tr) ==
    /\ \A i \in Indices(tr, "clear") :
        /\ i > 1
        /\ tr[i - 1].k = "apply" /\ tr[i - 1].depth = tr[i].depth
        /\ tr[i - 1].sel = tr[i].sel
        /\ ~tr[i - 1].show /\ rules[tr[i - 1].rule].clearWhenHidden
        /\ i < Len(tr) /\ tr[i + 1].k = "dispatch" /\ tr[i + 1].evt = "change"
        /\ LET ds == DispatchesOf(tr, i)
           IN /\ Len(ds) = 2
              /\ ds[1].evt = "change" /\ ds[1].sel = tr[i].sel
              /\ ds[2].evt = "input" /\ ds[2].sel = tr[i].sel
    /\ \A i \in Indices(tr, "apply") :
        IF ~tr[i].show /\ rules[tr[i].rule].clearWhenHidden
        THEN i < Len(tr) /\ tr[i + 1].k = "clear" /\ tr[i + 1].depth = tr[i].depth
        ELSE i < Len(tr) => /\ tr[i + 1].k # "clear"
                            /\ (tr[i + 1].k = "dispatch" => tr[i + 1].depth < tr[i].depth)
    /\ \A i \in Indices(tr, "dispatch") :
        \E j \in Indices(tr, "clear") :
            j < i /\ tr[j].sel = tr[i].sel /\ tr[j].depth = tr[i].depth /\ i < FrameEnd(tr, j)

\* C6: in every handler, each clearing is done by one hiding clear-on-hide
\* evaluation and dispatches exactly one "change" and then one "input" on the
\* cleared field; an evaluation that shows, or hides without clear-on-hide,
\* clears nothing and dispatches nothing, and a handler without a clearing
\* changes no field value.
C6_OneChangeOneInput ==
    [][/\ TraceClearsOnce(trace')
       /\ (formOp'.k \in {"install", "listener", "reapply"} /\ Indices(trace', "clear") = {})
            => els' = els]_vars

C6_Witness ==
    /\ formOp.k = "listener"
    /\ \E i \in Indices(trace, "clear") : trace[i].depth = 0
    /\ \E i \in Indices(trace, "clear") : trace[i].depth = 1

RepeatsLast ==
    /\ formOp.k = "listener"
    /\ queue # <<>>
    /\ Head(queue).rule = formOp.rule

SameAfter ==
    /\ els' = els
    /\ disp' = disp
    /\ ~hung'

\* No field was cleared in the handler after a predicate evaluated in the
\* handler had read it.
NoReadCleared(tr) ==
    \A i \in Indices(tr, "apply") : \A j \in Indices(tr, "clear") :
        j > i => tr[j].sel \notin ReadsOf(tr[i].rule)

\* C9 as stated: evaluating a rule again right after it was evaluated, with
\* no change in between, leaves containers and values as they were.
C9_Original == [][RepeatsLast => SameAfter]_vars

\* C9 amended: the same, when the first evaluation cleared no field after a
\* predicate (the rule's, or that of a rule re-evaluated by the clearing
\* events) had read it.
C9_Idempotent == [][(RepeatsLast /\ NoReadCleared(trace)) => SameAfter]_vars

C9_Witness ==
    /\ formOp.k = "listener"
    /\ formOp.again
    /\ ~hung
    /\ NoReadCleared(trace)
    /\ Indices(trace, "clear") # {}
    /\ \E i \in Indices(trace, "apply") : trace[i].depth = 1

\* Rule r resolved no dependency element at install.
Static(r) ==
    \A i \in DOMAIN rules[r].deps :
        rules[r].deps[i] \notin Fields \/ genAtInstall[rules[r].deps[i]] = 0

\* C10: a rule that resolved no dependency at install is evaluated exactly
\* once by the install, by no listener, and once by each reapplyAll().
C10_StaticRuleOnlyAtInstall ==
    (formInstalled /\ ~hung) =>
        \A r \in DOMAIN rules : Static(r) =>
            /\ formOp.k = "install" => EvalCount(trace, r) = 1
            /\ formOp.k = "listener" => EvalCount(trace, r) = 0
            /\ formOp.k = "reapply" => EvalCount(trace, r) = 1

C10_Witness ==
    /\ formInstalled
    /\ formOp.k = "listener"
    /\ \E r \in DOMAIN rules : Static(r) /\ rules[r].deps # <<>>
    /\ trace # <<>>

\* ------------------------------------------------------- raising predicates
\* The first `last` iterations of the pass (install or reapplyAll) from the
\* current state.
RECURSIVE PrefixFrom(_, _, _, _)
PrefixFrom(install, st, r, last) ==
    IF r > last \/ st.overflow \/ st.thrown THEN st
    ELSE PrefixFrom(install, IF install THEN setupRule(st, r) ELSE apply(st, r, MaxDepth),
                    r + 1, last)

First(S) == CHOOSE i \in S : \A j \in S : j >= i
ThrowsIn(tr) == Indices(tr, "throw")
OwnThrowsIn(tr) == {i \in Indices(tr, "throw") : tr[i].depth = 0}
OwnEvalCount(tr, r) ==
    Cardinality({i \in DOMAIN tr : tr[i].k \in {"apply", "skip", "throw"}
                                    /\ tr[i].rule = r /\ tr[i].depth = 0})

\* The step is a whole install or reapplyAll() pass that returned or raised.
PassStep == formOp'.k \in {"install", "reapply"} /\ queue' = <<>> /\ ~hung'

\* The step is the run of one listener of the event being delivered.
ListenerStep == queue # <<>> /\ queue' = Tail(queue) /\ ~hung'

\* The pass of this step ended at rule r: values and containers are as the
\* rules before r left them, no rule after r was evaluated by the pass, and
\* an install attached nothing for the rules after r and returned no handle.
AbortedAt(r) ==
    LET pre == PrefixFrom(formOp'.k = "install", Here, 1, r - 1)
    IN /\ thrown'
       /\ trace'[Len(trace')] = Entry("throw", r, rules[r].target, "", FALSE, 0)
       /\ els' = pre.el
       /\ disp' = pre.disp
       /\ \A q \in DOMAIN rules : q > r => OwnEvalCount(trace', q) = 0
       /\ formOp'.k = "install" =>
            /\ ~formInstalled'
            /\ \A i \in DOMAIN listeners' : listeners'[i].rule <= r
       /\ formOp'.k = "reapply" => listeners' = listeners

\* C11 as stated: whenever a predicate raises during install or
\* reapplyAll(), the pass is aborted at that rule.
C11_Original ==
    [][(PassStep /\ ThrowsIn(trace') # {})
        => AbortedAt(trace'[First(ThrowsIn(trace'))].rule)]_vars

\* C11 amended: when a predicate raises in the pass's own evaluation of its
\* rule (not in a listener run by the events of a clearing), the pass is
\* aborted at that rule: the rule's container and target value are left as
\* they were, later rules are not evaluated by the pass, and at install they
\* get no listeners and no reapplyAll handle is returned.
C11_ThrowAbortsPass ==
    [][(PassStep /\ OwnThrowsIn(trace') # {})
        => AbortedAt(trace'[First(OwnThrowsIn(trace'))].rule)]_vars

\* An install in which rule 1 hid and cleared #b and rule 2 raised: rule 3
\* was neither wired nor evaluated.
C11_Witness ==
    /\ formOp.k = "install"
    /\ thrown
    /\ ~formInstalled
    /\ Len(rules) = 3
    /\ trace[Len(trace)].k = "throw" /\ trace[Len(trace)].rule = 2
    /\ ClearedFields(trace) = {"b"}
    /\ disp[ContainerOf(1)] = "none"
    /\ listeners # <<>>
    /\ \A i \in DOMAIN listeners : listeners[i].rule <= 2

\* ------------------------------------------------------------ absent target
HandlerStep == PassStep \/ ListenerStep

\* Nothing was logged inside a skipped evaluation: what follows it in the
\* handler is the next evaluation of the same frame or belongs to an outer
\* frame; no clearing, no dispatch and no raise is its own.
SkipsAreInert(tr) ==
    \A i \in Indices(tr, "skip") :
        /\ rules[tr[i].rule].target \notin Present
        /\ i < Len(tr) =>
            /\ tr[i + 1].depth <= tr[i].depth
            /\ tr[i + 1].depth = tr[i].depth => tr[i + 1].k \in {"apply", "skip", "throw"}

SameEffect(s1, s2) ==
    /\ s1.el = s2.el
    /\ s1.disp = s2.disp
    /\ s1.thrown = s2.thrown
    /\ s1.overflow = s2.overflow

\* C12: evaluating a rule whose target matches no element invokes no
\* predicate, changes no container and no value, dispatches nothing and
\* raises nothing, and the other rules of the pass are still evaluated.
C12_AbsentTargetNoOp ==
    [][HandlerStep =>
        /\ SkipsAreInert(trace')
        /\ (ListenerStep /\ rules[formOp'.rule].target \notin Present) =>
                /\ els' = els /\ disp' = disp /\ ~thrown'
                /\ trace' = <<Entry("skip", formOp'.rule, rules[formOp'.rule].target, "", FALSE, 0)>>
        /\ PassStep =>
                \A r \in DOMAIN rules : rules[r].target \notin Present =>
                    /\ SameEffect(PrefixFrom(formOp'.k = "install", Here, 1, r),
                                  PrefixFrom(formOp'.k = "install", Here, 1, r - 1))
                    /\ OwnThrowsIn(trace') = {} =>
                            \A q \in DOMAIN rules : OwnEvalCount(trace', q) = 1]_vars

\* reapplyAll() skipped rule 1, whose predicate would have raised on the
\* empty #a, and went on to rule 2, which hid and cleared #b.
C12_Witness ==
    /\ formOp.k = "reapply"
    /\ ~thrown
    /\ Len(rules) = 2
    /\ rules[1].target \notin Present
    /\ throws(rules[1].when, Doc)
    /\ trace[1].k = "skip" /\ trace[1].rule = 1
    /\ \E i \in Indices(trace, "apply") : trace[i].rule = 2 /\ ~trace[i].show
    /\ ClearedFields(trace) = {"b"}

\* ------------------------------------------------------------- style block
Installs == (IF installed THEN 1 ELSE 0) + Len(others)

\* C13: after any number of installs on the page, with the same or with
\* different options, the document holds exactly one style block with the
\* controller's id.
C13_OneStyleBlock == Installs >= 1 => styleBlocks = 1

\* Two installs with different options, the second one after the host added
\* a control; one style block.
C13_Witness ==
    /\ Installs = 2
    /\ others[1].MAX_ROWS # MAX_ROWS
    /\ gridOp = "again"
    /\ grids # <<>> /\ grids[1].buttons # <<>>
    /\ styleBlocks = 1

\* ---------------------------------------------------------- value coercion
RECURSIVE Pow10(_)
Pow10(k) == IF k = 0 THEN 1 ELSE 10 * Pow10(k - 1)

RECURSIVE WeightedSum(_, _)
WeightedSum(s, i) ==
    IF i > Len(s) THEN 0 ELSE DigitVal(s[i]) * Pow10(Len(s) - i) + WeightedSum(s, i + 1)

\* An optionally-signed pure integer literal, and the integer it denotes.
IsSignedLiteral(s) ==
    LET k == IF s # <<>> /\ s[1] = "-" THEN 2 ELSE 1
    IN Len(s) >= k /\ \A i \in k..Len(s) : IsDigit(s[i])
LiteralValue(s) == IF s[1] = "-" THEN 0 - WeightedSum(s, 2) ELSE WeightedSum(s, 1)

Trimmed(s) ==
    LET ink == {i \in DOMAIN s : ~IsSpace(s[i])}
    IN IF ink = {} THEN <<>>
       ELSE SubSeq(s, CHOOSE i \in ink : \A j \in ink : j >= i,
                      CHOOSE i \in ink : \A j \in ink : j <= i)

Scalar(s) == IF IsSignedLiteral(s) THEN IntV(LiteralValue(s)) ELSE StrV(s)

\* The reading the specification gives for each kind of field.
ExpectedVal(doc, node) ==
    IF node = NoNode THEN StrV(<<>>)
    ELSE LET el == doc.el[node] IN
         IF el.type = "checkbox" THEN BoolV(el.checked)
         ELSE IF el.type = "radio" THEN
            LET chk == {n \in doc.present : /\ doc.el[n].type = "radio"
                                            /\ doc.el[n].name # <<>>
                                            /\ doc.el[n].name = el.name
                                            /\ doc.el[n].checked}
            IN IF chk = {} THEN StrV(<<>>) ELSE Scalar(doc.el[CHOOSE n \in chk : TRUE].value)
         ELSE IF el.tagName = "SELECT" /\ el.multiple THEN
            LET picked == SelectSeq(el.options, LAMBDA o : o.selected)
            IN ListV([i \in DOMAIN picked |-> Scalar(picked[i].value)])
         ELSE Scalar(Trimmed(el.value))

ReadAsExpected ==
    /\ ~ret.raised
    /\ ret.v = ExpectedVal(Doc, querySelector(Doc, ret.sel))

\* C14: val is total and type-determined: every call returns the reading of
\* the field's kind (checkbox: checked; radio: coerced value of the checked
\* member of the named group or ""; multi-select: coerced selected values;
\* otherwise the trimmed string, an integer exactly when it is an
\* optionally-signed integer literal) and never raises.
C14_ValTotal == ret.called => ReadAsExpected

\* The same for every call but that on a radio whose name holds a double
\* quote.
C14_ValWhenSelectorParses ==
    (ret.called /\ ~(ret.sel \in Present /\ els[ret.sel].type = "radio"
                        /\ SelectorRaises(els[ret.sel].name)))
        => ReadAsExpected

\* ---------------------------------------------------------------- threshold
\* The threshold the caller configured: maxRows when supplied, 3 otherwise.
Configured(o) == IF o.maxRows = <<>> THEN 3 ELSE o.maxRows[1]

InstalledWith(o, threshold) ==
    /\ MAX_ROWS' = threshold
    /\ grids' = toggleAllWith(grids, threshold, o.entityName,
                              OrDefault(o.gridSelector, DefaultGridSelector),
                              OrDefault(o.addButtonSelector, DefaultAddSelector))

\* C15: the threshold toggle compares the row count with is the configured
\* maxRows for every number the caller supplies, and 3 only when none is
\* supplied.
C15_ThresholdIsMaxRows ==
    [][\A o \in OptsSet : limitSubgridAdds(o) => InstalledWith(o, Configured(o))]_vars

\* The same for every supplied number but 0.
C15_ThresholdWhenNonZero ==
    [][\A o \in OptsSet : (limitSubgridAdds(o) /\ o.maxRows # <<0>>)
            => InstalledWith(o, Configured(o))]_vars

\* ---------------------------------------------------------------- container
\* The target and its ancestors, nearest first, up to the root.
RECURSIVE Chain(_)
Chain(n) == IF parentElement(n) = NoNode THEN <<n>> ELSE <<n>> \o Chain(parentElement(n))

\* The depth the caller configured: containerDepth when supplied, 3 otherwise.
ConfiguredDepth == IF options = <<>> THEN 3 ELSE options[1]

\* The element exactly ConfiguredDepth parent links above the target, or the
\* topmost ancestor when the chain is shorter.
ExpectedContainer(r) ==
    LET chain == Chain(rules[r].target)
    IN IF ConfiguredDepth + 1 <= Len(chain) THEN chain[ConfiguredDepth + 1]
       ELSE chain[Len(chain)]

TogglesExpectedContainer ==
    HandlerStep =>
        /\ \A n \in Nodes : disp'[n] # disp[n] =>
                \E r \in Evaluated(trace') : n = ExpectedContainer(r)
        /\ Indices(trace', "apply") # {} =>
                LET i == CHOOSE i \in Indices(trace', "apply") :
                            \A j \in Indices(trace', "apply") : j <= i
                IN disp'[ExpectedContainer(trace'[i].rule)] = displayFor(trace'[i].show)

\* C16: every evaluation toggles the element exactly containerDepth parent
\* links above the target (clamped at the topmost ancestor), for every
\* configured containerDepth, 3 being used only when none is supplied.
C16_ContainerAtDepth == [][TogglesExpectedContainer]_vars

\* The same for every configured depth but 0.
C16_ContainerWhenNonZero == [][options # <<0>> => TogglesExpectedContainer]_vars

\* ------------------------------------------------------- events and rules
EvalKinds == {"apply", "skip", "throw"}

\* The rules evaluated by the listeners of the event dispatched at entry i
\* of the handler, in order.
EvalsUnder(tr, i) ==
    LET stops == {j \in DOMAIN tr : j > i /\ tr[j].depth <= tr[i].depth}
        stop == IF stops = {} THEN Len(tr) + 1 ELSE First(stops)
        inner == SelectSeq(SubSeq(tr, i + 1, stop - 1),
                           LAMBDA e : e.depth = tr[i].depth + 1 /\ e.k \in EvalKinds)
    IN [n \in DOMAIN inner |-> inner[n].rule]

\* The rules that resolved the element now matching f as a dependency at
\* install, in rule order.
RulesListing(f) ==
    IF gen[f] > 0 /\ gen[f] = genAtInstall[f]
    THEN SelectSeq([r \in DOMAIN rules |-> r], LAMBDA r : Occurrences(rules[r].deps, f) > 0)
    ELSE <<>>

Replaced(f) == gen[f] > 0 /\ gen[f] # genAtInstall[f]

\* What the evaluation of rule r by the handler of this step must log first
\* and leave behind, given the elements matching the selectors before it.
EvaluatesCurrent(r, at) ==
    LET target == rules[r].target
        show == when(rules[r].when, Doc)
    IN IF target \notin Present THEN trace'[at].k = "skip"
       ELSE IF throws(rules[r].when, Doc) THEN trace'[at].k = "throw"
       ELSE /\ trace'[at] = Entry("apply", r, target, "", show, 0)
            /\ (ContainerOwn(trace', r) /\ EvalCount(trace', r) = 1) =>
                    disp'[ContainerOf(r)] = displayFor(show)
            /\ (~show /\ rules[r].clearWhenHidden) =>
                    /\ trace'[at + 1] = Entry("clear", 0, target, "", FALSE, 0)
                    /\ IsEmptyField([present |-> Present, el |-> els'], target)

\* C18: an evaluation by a listener or by reapplyAll() reads, toggles and
\* clears the elements that match the selectors when it runs, so also the
\* replacements of re-rendered elements; and no listener is bound to a
\* replacement element, so an event on it evaluates nothing.
C18_LiveElements ==
    [][formInstalled =>
        /\ ListenerStep => EvaluatesCurrent(Head(queue).rule, 1)
        /\ (PassStep /\ formOp'.k = "reapply") =>
                /\ EvaluatesCurrent(1, 1)
                /\ \A r \in DOMAIN rules :
                        (OwnThrowsIn(trace') = {} /\ rules[r].target \in Present) =>
                            \E i \in Indices(trace', "apply") :
                                trace'[i].rule = r /\ trace'[i].depth = 0
        /\ \A f \in Fields : Replaced(f) =>
                \A evt \in {"input", "change"} : ListenersOn(listeners, f, gen[f], evt) = <<>>]_vars

\* #b was re-rendered after install; the listener that survives on #a then
\* hid the container of the replacement #b and cleared the replacement.
C18_Witness ==
    /\ formInstalled
    /\ formOp.k = "listener" /\ formOp.sel = "a"
    /\ ~Replaced("a")
    /\ Replaced("b")
    /\ rules[formOp.rule].target = "b"
    /\ ClearedFields(trace) = {"b"}
    /\ els["b"].value = <<>>
    /\ disp[ContainerOf(formOp.rule)] = "none"

\* -------------------------------------------------------------- termination
\* C19: every handler (one event's listener, one install, one reapplyAll())
\* returns after finitely many rule evaluations, whatever the rule set: no
\* handler recurses without end.
C19_HandlersTerminate == ~hung

\* ------------------------------------------------- state after reapplyAll
AfterReapply ==
    /\ formInstalled
    /\ ~hung
    /\ ~thrown
    /\ formOp.k = "reapply"
    /\ queue = <<>>

Decidable(r) == rules[r].target \in Present /\ ~throws(rules[r].when, Doc)

ShownIffTrue(r) == (disp[ContainerOf(r)] # "none") <=> when(rules[r].when, Doc)

\* No other rule with an existing target toggles r's container.
SoleOwner(r) ==
    \A q \in DOMAIN rules :
        (q # r /\ rules[q].target \in Present) => ContainerOf(q) # ContainerOf(r)

\* No field r's predicate reads was cleared after r's last evaluation.
LastReadKept(tr, r) ==
    LET mine == {i \in Indices(tr, "apply") : tr[i].rule = r}
    IN \A i \in mine : (\A m \in mine : m <= i) =>
            \A j \in Indices(tr, "clear") : j > i => tr[j].sel \notin ReadsOf(r)

\* C20 as stated: when reapplyAll() returns, every rule whose target exists
\* has its container shown exactly when its predicate holds on the final
\* values.
C20_Original ==
    AfterReapply => \A r \in DOMAIN rules : Decidable(r) => ShownIffTrue(r)

\* C20 amended: the same for every rule whose container no other rule with
\* an existing target toggles and none of whose predicate's fields was
\* cleared after the rule's last evaluation in the pass.
C20_ReapplyConsistent ==
    AfterReapply =>
        \A r \in DOMAIN rules :
            /\ OwnEvalCount(trace, r) = 1
            /\ (Decidable(r) /\ SoleOwner(r) /\ LastReadKept(trace, r)) => ShownIffTrue(r)

\* reapplyAll() showed #c by rule 1, then rule 2 hid and cleared #b, which
\* rule 1 reads; the events of the clearing evaluated rule 1 again, which hid
\* #c: both containers agree with the final values.
C20_Witness ==
    /\ AfterReapply
    /\ Len(rules) = 2
    /\ \A r \in DOMAIN rules : Decidable(r) /\ SoleOwner(r) /\ LastReadKept(trace, r)
    /\ trace[1] = Entry("apply", 1, rules[1].target, "", TRUE, 0)
    /\ \E j \in Indices(trace, "clear") : trace[j].sel \in ReadsOf(1) /\ trace[j].depth = 0
    /\ \E i \in Indices(trace, "apply") : trace[i].rule = 1 /\ trace[i].depth = 1 /\ ~trace[i].show
    /\ disp[ContainerOf(1)] = "none"
    /\ disp[ContainerOf(2)] = "none"
====
